---- MODULE Spec2Model ----
(***************************************************************************)
(* Zajmil AI Chef (src/main.py): the Gemini generation client (model-name  *)
(* normalization, endpoint probing, retry loop, response parsing), the SEO *)
(* optimizer, the content validator, the analytics tracker and the         *)
(* generate_and_publish workflow.                                          *)
(*                                                                         *)
(* Texts are TLA+ strings and are processed character by character, as the *)
(* Python string methods do.  The Arabic literals of the source cannot be  *)
(* written in a TLA+ string; each is replaced by a fixed Latin             *)
(* transliteration that keeps the prefix/substring relations between the   *)
(* literals (see TRIGGER_WORDS).                                           *)
(***************************************************************************)
EXTENDS Integers, Sequences, FiniteSets, TLC

(***************************************************************************)
(* Python string primitives                                                *)
(***************************************************************************)
Char(s, i) == SubSeq(s, i, i)

Whitespace == {" ", "\t", "\n", "\r"}

StartsWith(s, p) == Len(s) >= Len(p) /\ SubSeq(s, 1, Len(p)) = p

EndsWith(s, p) == Len(s) >= Len(p) /\ SubSeq(s, Len(s) - Len(p) + 1, Len(s)) = p

\* `t in s` for two strings
Contains(s, t) == \E i \in 1..(Len(s) - Len(t) + 1) : SubSeq(s, i, i + Len(t) - 1) = t

RECURSIVE LStrip(_)
LStrip(s) == IF Len(s) > 0 /\ Char(s, 1) \in Whitespace
             THEN LStrip(SubSeq(s, 2, Len(s))) ELSE s

RECURSIVE RStrip(_)
RStrip(s) == IF Len(s) > 0 /\ Char(s, Len(s)) \in Whitespace
             THEN RStrip(SubSeq(s, 1, Len(s) - 1)) ELSE s

\* str.strip()
Strip(s) == RStrip(LStrip(s))

UpperLetters == "ABCDEFGHIJKLMNOPQRSTUVWXYZ"
LowerLetters == "abcdefghijklmnopqrstuvwxyz"

UpperSet == { Char(UpperLetters, i) : i \in 1..26 }

LowerChar(c) == IF c \in UpperSet
                THEN Char(LowerLetters, CHOOSE i \in 1..26 : Char(UpperLetters, i) = c)
                ELSE c

RECURSIVE Lower(_)
\* str.lower()
Lower(s) == IF Len(s) = 0 THEN s
            ELSE LowerChar(Char(s, 1)) \o Lower(SubSeq(s, 2, Len(s)))

\* the positions where a word of s starts: a non-blank character that is
\* the first one or follows a blank
WordStarts(s) ==
    { i \in 1..Len(s) : /\ Char(s, i) \notin Whitespace
                        /\ (i = 1 \/ Char(s, i - 1) \in Whitespace) }

\* len(s.split())
WordCount(s) == Cardinality(WordStarts(s))

RECURSIVE Join(_, _)
\* sep.join(list)
Join(sep, list) == IF Len(list) = 0 THEN ""
                   ELSE IF Len(list) = 1 THEN list[1]
                   ELSE list[1] \o sep \o Join(sep, Tail(list))

(***************************************************************************)
(* GeminiChefEngine: model-name normalization                              *)
(***************************************************************************)
SUPPORTED_MODELS == {
    "gemini-1.5-flash", "gemini-1.5-flash-001", "gemini-1.5-flash-002",
    "gemini-1.5-pro", "gemini-1.5-pro-001", "gemini-1.5-pro-002",
    "gemini-pro" }

MODEL_ALIASES == [a \in { "flash", "flash-latest", "flash-1.5", "pro", "pro-latest",
                          "pro-1.5", "gemini", "gemini-1.5-flash-latest",
                          "gemini-1.5-pro-latest" } |->
    CASE a = "flash"                   -> "gemini-1.5-flash"
      [] a = "flash-latest"            -> "gemini-1.5-flash"
      [] a = "flash-1.5"               -> "gemini-1.5-flash"
      [] a = "pro"                     -> "gemini-1.5-pro"
      [] a = "pro-latest"              -> "gemini-1.5-pro"
      [] a = "pro-1.5"                 -> "gemini-1.5-pro"
      [] a = "gemini"                  -> "gemini-1.5-flash"
      [] a = "gemini-1.5-flash-latest" -> "gemini-1.5-flash"
      [] a = "gemini-1.5-pro-latest"   -> "gemini-1.5-pro" ]

\* original.replace('models/', '', 1) under the startswith guard
StripModelsPrefix(original) ==
    IF StartsWith(original, "models/")
    THEN SubSeq(original, Len("models/") + 1, Len(original))
    ELSE original

ApplyAlias(normalized) ==
    IF normalized \in DOMAIN MODEL_ALIASES THEN MODEL_ALIASES[normalized] ELSE normalized

\* normalized[:-7] under the endswith guard
StripLatestSuffix(normalized) ==
    IF EndsWith(normalized, "-latest")
    THEN SubSeq(normalized, 1, Len(normalized) - 7)
    ELSE normalized

_smart_normalize_model_name(model_name) ==
    StripLatestSuffix(ApplyAlias(Lower(StripModelsPrefix(Strip(model_name)))))

(***************************************************************************)
(* Configuration (class Config).  The numeric settings are read from the   *)
(* environment; the model runs the configuration below.                    *)
(***************************************************************************)
GEMINI_MAX_RETRIES == 5
MIN_RECIPE_INGREDIENTS == 5
MIN_RECIPE_STEPS == 6
\* TARGET_WORD_COUNT is set through the environment to a value the texts of
\* the model can meet (the default is 1200).
TARGET_WORD_COUNT == 30
META_DESCRIPTION_LENGTH == 160

\* transliterations of the configured Arabic categories and keywords
CONTENT_CATEGORIES == << "halwiyat arabiya", "muajanat", "kayk wa turtat" >>

PRIMARY_KEYWORDS == << "wasafat tabkh", "halwiyat sahla", "tariqat amal", "wasafat manziliya" >>

ApiVersions == {"v1beta", "v1"}

\* Config.__post_init__
RestEndpoint(version) == "https://generativelanguage.googleapis.com/" \o version

BACKUP_ENDPOINT == "https://generativelanguage.googleapis.com/v1"

(***************************************************************************)
(* Recipe (dataclass) and the JSON objects a response can carry.  Python's *)
(* None is kept apart from the values: a record lists in `none` the        *)
(* attributes that hold None, and NoRecipe is the None of Optional[Recipe].*)
(***************************************************************************)
NoRecipe == [none |-> TRUE]

REQUIRED_FIELDS == <<"title", "description", "ingredients", "steps">>

SeqFields == {"ingredients", "steps", "keywords", "tags"}

Get(obj, key, default) == IF key \in obj.keys THEN obj[key] ELSE default

\* FieldMissing without the `not data[field]` test
FieldMissing_AbsentOnly(obj, f) == f \notin obj.keys

\* `field not in data or not data[field]`
FieldMissing(obj, f) ==
    \/ f \notin obj.keys
    \/ f \in obj.nulls
    \/ IF f \in SeqFields THEN Len(obj[f]) = 0 ELSE obj[f] = ""

\* full_text of _parse_response and its word count
FullText(title, description, ingredients, steps) ==
    title \o " " \o description \o " " \o Join(" ", ingredients) \o Join(" ", steps)

ComputeWordCount(title, description, ingredients, steps) ==
    WordCount(FullText(title, description, ingredients, steps))

LongDescription ==
    "a rich semolina cake soaked in syrup and topped with cream that everyone at home will love"

IngredientPool == << "two cups semolina", "one cup sugar", "one cup yogurt",
                     "half cup butter", "one spoon baking powder", "a cup of syrup" >>

StepPool == << "mix the dry ingredients", "add yogurt and butter", "pour into the tray",
               "bake until golden", "pour the syrup", "leave to cool", "serve with cream" >>

KeywordPool == << "basbousa", "semolina", "dessert", "syrup", "cream", "baking" >>

TagPool == << "sweets", "semolina", "oven", "family", "easy" >>

\* a well-formed object whose title carries no trigger phrase
GoodData ==
    [ keys        |-> {"title", "description", "ingredients", "steps", "prep_time",
                       "cook_time", "servings", "difficulty", "keywords", "tags"},
      nulls       |-> {},
      \* the keys whose value is a text that is no number, like "half an hour"
      texts       |-> {},
      title       |-> "basbousa with cream for the family",
      description |-> LongDescription,
      ingredients |-> SubSeq(IngredientPool, 1, 5),
      steps       |-> SubSeq(StepPool, 1, 6),
      prep_time   |-> 20,
      cook_time   |-> 35,
      servings    |-> 6,
      difficulty  |-> "sahl",
      keywords    |-> KeywordPool,
      tags        |-> TagPool ]

\* the JSON objects the API serves in the model; a payload names one by its
\* position
DataObjects ==
    << GoodData,
      \* optional keys absent: the defaults of _parse_response apply
      [GoodData EXCEPT !.keys = {"title", "description", "ingredients", "steps"}],
      \* titles that carry a trigger phrase, or only the trigger prefix
      [GoodData EXCEPT !.title = "wasfat basbousa with cream at home"],
      [GoodData EXCEPT !.title = "tariqat tahdir basbousa with cream"],
      \* a required key absent, or present and empty
      [GoodData EXCEPT !.keys = @ \ {"steps"}],
      [GoodData EXCEPT !.ingredients = <<>>],
      \* too few ingredients, too short a description
      [GoodData EXCEPT !.ingredients = SubSeq(IngredientPool, 1, 4)],
      [GoodData EXCEPT !.description = "a quick cake"],
      \* "keywords": null, "tags": null
      [GoodData EXCEPT !.nulls = {"keywords"}],
      [GoodData EXCEPT !.nulls = {"tags"}],
      \* "prep_time": "half an hour", "servings": null, no numeric key at all
      [GoodData EXCEPT !.texts = {"prep_time"}],
      [GoodData EXCEPT !.nulls = {"servings"}],
      [GoodData EXCEPT !.keys = @ \ {"prep_time", "cook_time", "servings"}] >>

\* a payload is the text of a response: "empty" (''), "nojson" (no {...}
\* span), "badjson" (json.loads raises) or "json" (the object DataObjects[obj])
_parse_response(payload, category) ==
    IF payload.form # "json" THEN NoRecipe
    ELSE LET obj == DataObjects[payload.object]
             missing == { i \in 1..Len(REQUIRED_FIELDS) : FieldMissing(obj, REQUIRED_FIELDS[i]) }
         IN IF missing # {} THEN NoRecipe
            \* int(None) raises TypeError and int("half an hour") ValueError,
            \* caught by the except clause
            ELSE IF {"prep_time", "cook_time", "servings"} \cap obj.keys
                        \cap (obj.nulls \cup obj.texts) # {} THEN NoRecipe
            ELSE LET title == Strip(obj.title)
                     description == Strip(obj.description)
                 IN [ title            |-> title,
                      category         |-> category,
                      description      |-> description,
                      ingredients      |-> obj.ingredients,
                      steps            |-> obj.steps,
                      prep_time        |-> Get(obj, "prep_time", 30),
                      cook_time        |-> Get(obj, "cook_time", 30),
                      servings         |-> Get(obj, "servings", 4),
                      difficulty       |-> Get(obj, "difficulty", "mutawassit"),
                      meta_description |-> "",
                      keywords         |-> IF "keywords" \in obj.nulls THEN <<>>
                                           ELSE Get(obj, "keywords", <<>>),
                      tags             |-> IF "tags" \in obj.nulls THEN <<>>
                                           ELSE Get(obj, "tags", <<category>>),
                      none             |-> obj.nulls \cap {"keywords", "tags", "difficulty"},
                      post_id          |-> "None",
                      seo_score        |-> 0,
                      word_count       |-> ComputeWordCount(title, description,
                                                            obj.ingredients, obj.steps) ]

(***************************************************************************)
(* Lists made from Python sets, and str.split()                            *)
(***************************************************************************)
RECURSIVE SetToSeq(_)
\* list(a_set): the order is unspecified; the model takes one
SetToSeq(S) == IF S = {} THEN <<>>
               ELSE LET x == CHOOSE y \in S : TRUE IN <<x>> \o SetToSeq(S \ {x})

\* set(a_list)
SeqToSet(q) == { q[i] : i \in 1..Len(q) }

\* the lists list(a_set)[:n] can be: any n elements may come first
Truncations(S, n) ==
    IF Cardinality(S) <= n THEN { SetToSeq(S) }
    ELSE { SetToSeq(T) : T \in { U \in SUBSET S : Cardinality(U) = n } }

\* the word of s that starts at position i
WordAt(s, i) ==
    SubSeq(s, i, CHOOSE j \in i..Len(s) :
                    /\ \A k \in i..j : Char(s, k) \notin Whitespace
                    /\ (j = Len(s) \/ Char(s, j + 1) \in Whitespace))

RECURSIVE Ascending(_)
Ascending(S) == IF S = {} THEN <<>>
                ELSE LET m == CHOOSE x \in S : \A y \in S : x <= y
                     IN <<m>> \o Ascending(S \ {m})

\* s.split()
Split(s) == LET starts == Ascending(WordStarts(s))
            IN [ k \in 1..Len(starts) |-> WordAt(s, starts[k]) ]

\* [x for x in q if keep(x)]
Filter(q, keep(_)) == SelectSeq(q, keep)

\* q[:n]; a negative n counts from the end
Take(q, n) == IF n >= 0 THEN SubSeq(q, 1, IF Len(q) < n THEN Len(q) ELSE n)
              ELSE SubSeq(q, 1, Len(q) + n)

(***************************************************************************)
(* ContentValidator.validate                                               *)
(***************************************************************************)
\* int(config.TARGET_WORD_COUNT * 0.7); the product is exact for the
\* configured value
MinWords == (TARGET_WORD_COUNT * 7) \div 10

ValidationErrors(recipe) ==
    (IF recipe.title = "" \/ Len(recipe.title) < 10 THEN <<"title_short">> ELSE <<>>)
    \o (IF Len(recipe.ingredients) < MIN_RECIPE_INGREDIENTS THEN <<"ingredients_few">> ELSE <<>>)
    \o (IF Len(recipe.steps) < MIN_RECIPE_STEPS THEN <<"steps_few">> ELSE <<>>)
    \o (IF recipe.word_count < MinWords THEN <<"words_few">> ELSE <<>>)
    \o (IF recipe.description = "" \/ Len(recipe.description) < 80
        THEN <<"description_short">> ELSE <<>>)

ValidationWarnings(recipe) ==
    (IF ~(recipe.title = "" \/ Len(recipe.title) < 10) /\ Len(recipe.title) > 100
     THEN <<"title_long">> ELSE <<>>)
    \o (IF Len(recipe.keywords) < 3 THEN <<"keywords_few">> ELSE <<>>)

\* raised: len(recipe.keywords) on None is a TypeError
validate(recipe) ==
    IF "keywords" \in recipe.none
    THEN [raised |-> TRUE, is_valid |-> FALSE, messages |-> <<>>]
    ELSE [ raised   |-> FALSE,
           is_valid |-> Len(ValidationErrors(recipe)) = 0,
           messages |-> ValidationErrors(recipe) \o ValidationWarnings(recipe) ]

(***************************************************************************)
(* SEOOptimizer                                                            *)
(***************************************************************************)
TRIGGER_WORDS == << "tariqat amal", "wasfat", "kayfiyat tahdir" >>
TRIGGER_PREFIX == "tariqat"
ANALYSIS_WORDS == << "tariqat", "wasfat", "kayfiyat" >>

COMMON_KEYWORDS == << "wasfat", "tabkh", "sahl", "ladhidh", "manzili", "sari", "shahi" >>

\* the body of _generate_optimized_meta, for a description, the configured
\* META_DESCRIPTION_LENGTH and the configured PRIMARY_KEYWORDS[0]
GenerateMeta(description, cap, primary_keyword) ==
    LET base_desc == Take(description, cap - 40)
        key_phrase == " | " \o primary_keyword
        max_len == cap - Len(key_phrase) - 3
    IN (IF Len(base_desc) > max_len THEN Take(base_desc, max_len) \o "..." ELSE base_desc)
       \o key_phrase

_generate_optimized_meta(recipe) ==
    GenerateMeta(recipe.description, META_DESCRIPTION_LENGTH, PRIMARY_KEYWORDS[1])

LongWord(w) == Len(w) > 3

\* the set built by _extract_enhanced_keywords; sample is random.sample(...)
EnhancedKeywordSet(recipe, sample) ==
    SeqToSet(PRIMARY_KEYWORDS) \cup {recipe.category}
    \cup SeqToSet(Take(Filter(Split(recipe.title), LongWord), 3))
    \cup sample

_extract_enhanced_keywords(recipe, sample) ==
    Truncations(EnhancedKeywordSet(recipe, sample), 10)

\* f"{recipe.difficulty}"
DifficultyText(recipe) == IF "difficulty" \in recipe.none THEN "None" ELSE recipe.difficulty

EnhancedTagSet(recipe) ==
    SeqToSet(recipe.tags)
    \cup {recipe.category, "wasafat arabiya", "tabkh manzili", DifficultyText(recipe)}
    \cup (IF Contains(Lower(recipe.category), "halw") THEN {"halwiyat"} ELSE {})

_enhance_tags(recipe) == Truncations(EnhancedTagSet(recipe), 8)

\* any(tw in title for tw in trigger_words)
HasTrigger(title) == \E i \in 1..Len(TRIGGER_WORDS) : Contains(title, TRIGGER_WORDS[i])

\* _optimize_title testing the prefix only
_optimize_title_PrefixOnly(title) ==
    IF ~StartsWith(title, TRIGGER_PREFIX) THEN "tariqat amal " \o title ELSE title

_optimize_title(title) ==
    IF ~HasTrigger(title) /\ ~StartsWith(title, TRIGGER_PREFIX)
    THEN "tariqat amal " \o title
    ELSE title

\* random.sample(common_keywords, 3); the model draws from the first four
KeywordSamples ==
    { S \in SUBSET SeqToSet(Take(COMMON_KEYWORDS, 4)) : Cardinality(S) = 3 }

\* optimize_for_seo: the records it can leave, or the TypeError of
\* len(recipe.tags) on None
optimize_for_seo(recipe, aggressive) ==
    LET meta == _generate_optimized_meta(recipe)
        keywordLists == IF Len(recipe.keywords) < 3
                        THEN UNION { _extract_enhanced_keywords(recipe, sm) : sm \in KeywordSamples }
                        ELSE {recipe.keywords}
        tagLists == IF Len(recipe.tags) < 5 THEN _enhance_tags(recipe) ELSE {recipe.tags}
        title == IF aggressive THEN _optimize_title(recipe.title) ELSE recipe.title
    IN IF "tags" \in recipe.none
       THEN { [raised |-> TRUE, recipe |-> recipe] }
       ELSE { [ raised |-> FALSE,
                recipe |-> [recipe EXCEPT !.meta_description = meta,
                                          !.keywords = kw,
                                          !.none = @ \ {"keywords"},
                                          !.tags = tg,
                                          !.title = title] ]
              : kw \in keywordLists, tg \in tagLists }

TitleLengthScore(title) ==
    IF 30 <= Len(title) /\ Len(title) <= 70 THEN 25
    ELSE IF 20 <= Len(title) /\ Len(title) <= 80 THEN 15 ELSE 0

TitleKeywordScore(title) ==
    IF \E i \in 1..Len(ANALYSIS_WORDS) : Contains(Lower(title), ANALYSIS_WORDS[i]) THEN 15 ELSE 0

\* word_count >= TARGET_WORD_COUNT * 0.8, compared in tenths
WordCountScore(word_count) ==
    IF word_count >= TARGET_WORD_COUNT THEN 20
    ELSE IF word_count * 10 >= TARGET_WORD_COUNT * 8 THEN 12 ELSE 0

KeywordCountScore(keywords) ==
    IF Len(keywords) >= 6 THEN 15 ELSE IF Len(keywords) >= 3 THEN 8 ELSE 0

MetaScore(meta) == IF meta # "" /\ Len(meta) >= 100 THEN 5 ELSE IF meta # "" THEN 2 ELSE 0

\* SeoScore with the word-count factor left out
SeoScore_NoWordCountFactor(recipe) ==
    TitleLengthScore(recipe.title) + TitleKeywordScore(recipe.title)
    + (IF Len(recipe.ingredients) >= MIN_RECIPE_INGREDIENTS THEN 10 ELSE 0)
    + (IF Len(recipe.steps) >= MIN_RECIPE_STEPS THEN 10 ELSE 0)
    + KeywordCountScore(recipe.keywords)
    + MetaScore(recipe.meta_description)

SeoScore(recipe) ==
    TitleLengthScore(recipe.title) + TitleKeywordScore(recipe.title)
    + WordCountScore(recipe.word_count)
    + (IF Len(recipe.ingredients) >= MIN_RECIPE_INGREDIENTS THEN 10 ELSE 0)
    + (IF Len(recipe.steps) >= MIN_RECIPE_STEPS THEN 10 ELSE 0)
    + KeywordCountScore(recipe.keywords)
    + MetaScore(recipe.meta_description)

Grade(score) == IF score >= 85 THEN "mumtaz" ELSE IF score >= 70 THEN "jayyid jiddan"
                ELSE IF score >= 55 THEN "jayyid" ELSE "maqbul"

\* analyze_recipe writes the score back onto the record
analyze_recipe(recipe) == [recipe EXCEPT !.seo_score = SeoScore(recipe)]

(***************************************************************************)
(* AnalyticsTracker                                                        *)
(***************************************************************************)
\* the store _load returns when there is no readable file.  avg_seo_score
\* is kept as the fraction sum / n; categories_count is a dict, kept in
\* insertion order; last_publish tells only whether a time was stored
EmptyStore ==
    [ recipes    |-> <<>>,
      statistics |-> [ total_published  |-> 0,
                       total_drafts     |-> 0,
                       avg_seo_score    |-> [sum |-> 0, n |-> 1],
                       categories_count |-> <<>>,
                       last_publish     |-> FALSE ] ]

\* categories_count.get(cat, 0)
CountOf(counts, cat) ==
    IF \E i \in 1..Len(counts) : counts[i].cat = cat
    THEN counts[CHOOSE i \in 1..Len(counts) : counts[i].cat = cat].count
    ELSE 0

\* categories_count[cat] = n
SetCount(counts, cat, n) ==
    IF \E i \in 1..Len(counts) : counts[i].cat = cat
    THEN [ i \in 1..Len(counts) |-> IF counts[i].cat = cat THEN [cat |-> cat, count |-> n]
                                    ELSE counts[i] ]
    ELSE Append(counts, [cat |-> cat, count |-> n])

RECURSIVE SumSeq(_)
SumSeq(q) == IF Len(q) = 0 THEN 0 ELSE Head(q) + SumSeq(Tail(q))

TrackedEntry(recipe, published) ==
    [ post_id      |-> recipe.post_id,
      title        |-> recipe.title,
      category     |-> recipe.category,
      seo_score    |-> recipe.seo_score,
      word_count   |-> recipe.word_count,
      is_published |-> published ]

\* the filter of line 1448 letting a score of 0 pass
PositiveScore_OrZero(x) == x >= 0

\* line 1448: r.get('seo_score', 0) > 0
PositiveScore(x) == x > 0

\* track_recipe with the category count set to 1 instead of incremented
track_recipe_ResetsCategoryCount(store, recipe, published) ==
    LET recipes == Append(store.recipes, TrackedEntry(recipe, published))
        stats == store.statistics
        scores == Filter([ i \in 1..Len(recipes) |-> recipes[i].seo_score ], PositiveScore)
    IN [ recipes    |-> recipes,
         statistics |->
           [ total_published  |-> IF published THEN stats.total_published + 1
                                  ELSE stats.total_published,
             total_drafts     |-> IF published THEN stats.total_drafts
                                  ELSE stats.total_drafts + 1,
             avg_seo_score    |-> IF Len(scores) > 0
                                  THEN [sum |-> SumSeq(scores), n |-> Len(scores)]
                                  ELSE stats.avg_seo_score,
             categories_count |-> SetCount(stats.categories_count, recipe.category, 1),
             last_publish     |-> TRUE ] ]

\* track_recipe without its final _save
track_recipe(store, recipe, published) ==
    LET recipes == Append(store.recipes, TrackedEntry(recipe, published))
        stats == store.statistics
        scores == Filter([ i \in 1..Len(recipes) |-> recipes[i].seo_score ], PositiveScore)
    IN [ recipes    |-> recipes,
         statistics |->
           [ total_published  |-> IF published THEN stats.total_published + 1
                                  ELSE stats.total_published,
             total_drafts     |-> IF published THEN stats.total_drafts
                                  ELSE stats.total_drafts + 1,
             avg_seo_score    |-> IF Len(scores) > 0
                                  THEN [sum |-> SumSeq(scores), n |-> Len(scores)]
                                  ELSE stats.avg_seo_score,
             categories_count |-> SetCount(stats.categories_count, recipe.category,
                                           CountOf(stats.categories_count, recipe.category) + 1),
             last_publish     |-> TRUE ] ]

\* the file after _save: written whole, left as it was because open() failed,
\* or cut short because the write failed after open() had truncated it
SaveOutcomes == {"written", "open_failed", "write_failed"}

\* _save that writes nothing
_save_WritesNothing(stored, store, outcome) == stored

_save(stored, store, outcome) ==
    IF outcome = "written" THEN [status |-> "complete", store |-> store]
    ELSE IF outcome = "open_failed" THEN stored
    ELSE [status |-> "partial", store |-> EmptyStore]

NoFile == [status |-> "absent", store |-> EmptyStore]

\* _load: the content of a file that exists and parses, the empty store
\* otherwise (json.load raises on a file cut short, and the error is passed)
_load(stored) == IF stored.status = "complete" THEN stored.store ELSE EmptyStore

RECURSIVE InsertByCount(_, _)
\* insert item behind every element whose count is not larger
InsertByCount(sorted, item) ==
    IF Len(sorted) = 0 THEN <<item>>
    ELSE IF Head(sorted).count <= item.count
    THEN <<Head(sorted)>> \o InsertByCount(Tail(sorted), item)
    ELSE <<item>> \o sorted

RECURSIVE SortByCount(_)
\* sorted(counts.items(), key=lambda x: x[1]): stable
SortByCount(counts) ==
    IF Len(counts) = 0 THEN <<>>
    ELSE InsertByCount(SortByCount(SubSeq(counts, 1, Len(counts) - 1)), counts[Len(counts)])

\* get_next_category with the sort left out: the counts are read in
\* insertion order
get_next_category_Unsorted(store) ==
    LET counts == store.statistics.categories_count
        sorted_cats == counts
    IN IF Len(counts) = 0 THEN SeqToSet(CONTENT_CATEGORIES)
       ELSE IF sorted_cats[1].count < 3 THEN { sorted_cats[1].cat }
       ELSE { sorted_cats[i].cat : i \in 1..(IF Len(sorted_cats) < 3 THEN Len(sorted_cats) ELSE 3) }

\* the categories get_next_category can return (random.choice picks one)
get_next_category(store) ==
    LET counts == store.statistics.categories_count
        sorted_cats == SortByCount(counts)
    IN IF Len(counts) = 0 THEN SeqToSet(CONTENT_CATEGORIES)
       ELSE IF sorted_cats[1].count < 3 THEN { sorted_cats[1].cat }
       ELSE { sorted_cats[i].cat : i \in 1..(IF Len(sorted_cats) < 3 THEN Len(sorted_cats) ELSE 3) }

(***************************************************************************)
(* Inputs: the JSON objects and the responses the generation API can give. *)
(***************************************************************************)
Payloads ==
    { [form |-> f, object |-> 0] : f \in {"empty", "nojson", "badjson"} }
    \cup { [form |-> "json", object |-> d] : d \in 1..Len(DataObjects) }

NoPayload == [form |-> "empty", object |-> 0]

\* the messages of the exceptions _call_rest_api raises (lines 977-1000)
RestErrors(model_name, version) ==
    { "Rate limit exceeded",
      "Model " \o model_name \o " not found in " \o version,
      "HTTP 401: unauthenticated", "HTTP 403: permission denied",
      "HTTP 500: internal error",
      "read timed out" }

\* the messages of the exceptions the SDK raises in _call_sdk
SdkErrors == { "429 quota exceeded", "403 permission denied", "504 deadline exceeded" }

\* what one underlying call gives: an exception, None, or a text
Raise(msg) == [kind |-> "raise", err |-> msg, payload |-> NoPayload]
ReturnNone == [kind |-> "none", err |-> "", payload |-> NoPayload]
ReturnText(p) == [kind |-> "text", err |-> "", payload |-> p]

NoResponse == [kind |-> "nocall", err |-> "", payload |-> NoPayload]

\* _call_rest_api (918-1000) and _call_sdk (1002-1025) as seen by generate_recipe
CallResults(eng, cfg) ==
    IF eng.use_rest
    THEN { Raise(m) : m \in RestErrors(eng.model_name, cfg.GEMINI_API_VERSION) }
         \cup {ReturnNone} \cup { ReturnText(p) : p \in Payloads }
    ELSE IF eng.sdk_model = "None"
    \* self.sdk_model.generate_content on None
    THEN { Raise("'NoneType' object has no attribute 'generate_content'") }
    ELSE { Raise(m) : m \in SdkErrors } \cup {ReturnNone}
         \cup { ReturnText(p) : p \in Payloads \ {NoPayload} }

\* every category generate_recipe is called with: the configured ones and a
\* category given on the command line that is not configured
OTHER_CATEGORY == "salatat"

AllCategories == { CONTENT_CATEGORIES[i] : i \in 1..Len(CONTENT_CATEGORIES) } \cup {OTHER_CATEGORY}

\* _parse_response tabulated over the payloads and categories of the model
ParseTable == [ p \in Payloads |-> [ c \in AllCategories |-> _parse_response(p, c) ] ]

Parse(payload, category) == ParseTable[payload][category]

(***************************************************************************)
(* State                                                                   *)
(***************************************************************************)
VARIABLES
    config,           \* the process-wide Config object
    GENAI_AVAILABLE,  \* whether google.generativeai could be imported
    engine,           \* GeminiChefEngine: state, use_rest, model_name, sdk_model
    probes,           \* the requests _test_rest_api has sent: endpoint and outcome
    gen,              \* the running generate_recipe invocation
    invocations,      \* generate_recipe invocations started by a caller other than run_continuous
    call_log,         \* transport and endpoint of every generation call made
    norm,             \* a model name under normalization
    call,             \* a method called on its own: its arguments and its result
    cycle,            \* the running generate_and_publish call
    cycles,           \* generate_and_publish calls started by a caller other than run_continuous
    published_count,  \* ZajmilAIChef.published_count
    data,             \* AnalyticsTracker.data
    file,             \* the persisted performance file
    inserted          \* the posts the Publishing Service has accepted

engineVars == <<config, GENAI_AVAILABLE, engine, probes>>
genVars == <<gen, invocations, call_log>>
cycleVars == <<cycle, cycles, published_count, data, file, inserted>>
vars == <<config, GENAI_AVAILABLE, engine, probes, gen, invocations, call_log, norm, call,
          cycle, cycles, published_count, data, file, inserted>>

MaxInvocations == 2

(***************************************************************************)
(* GeminiChefEngine.__init__                                               *)
(***************************************************************************)
\* p1, p2: whether the first and the fallback request of _test_rest_api get
\* status 200; sdk_ok: whether _init_sdk returns without raising
GeminiChefEngine_init(cfg, genai, p1, p2, sdk_ok) ==
    LET use_rest0 == cfg.USE_REST_API
        first == [endpoint |-> cfg.GEMINI_REST_ENDPOINT, ok |-> p1]
        fallback == use_rest0 /\ ~p1 /\ cfg.GEMINI_API_VERSION = "v1beta"
        second == [endpoint |-> BACKUP_ENDPOINT, ok |-> p2]
        raised == fallback /\ ~p2
        try_sdk == ~raised /\ genai /\ ~use_rest0
    IN [ engine |-> [ state      |-> IF raised THEN "raised" ELSE "ready",
                      use_rest   |-> IF try_sdk /\ ~sdk_ok THEN TRUE ELSE use_rest0,
                      model_name |-> _smart_normalize_model_name(cfg.GEMINI_MODEL),
                      sdk_model  |-> IF try_sdk /\ sdk_ok THEN "model" ELSE "None" ],
         config |-> [cfg EXCEPT !.GEMINI_REST_ENDPOINT =
                                    IF fallback /\ p2 THEN BACKUP_ENDPOINT ELSE @],
         probes |-> IF ~use_rest0 THEN <<>>
                    ELSE IF fallback THEN <<first, second>> ELSE <<first>> ]

EngineInit ==
    /\ engine.state = "new"
    /\ \E p1 \in BOOLEAN, p2 \in BOOLEAN, sdk_ok \in BOOLEAN :
         LET r == GeminiChefEngine_init(config, GENAI_AVAILABLE, p1, p2, sdk_ok)
         IN /\ engine' = r.engine
            /\ config' = r.config
            /\ probes' = r.probes
    /\ UNCHANGED <<GENAI_AVAILABLE, gen, invocations, call_log, norm, call, cycleVars>>

(***************************************************************************)
(* GeminiChefEngine.generate_recipe                                        *)
(***************************************************************************)
Retry == [pc |-> "loop", result |-> NoRecipe]
ReturnRecipe(recipe) == [pc |-> "returned", result |-> recipe]

\* AttemptOutcome with the parse-failure branch returning at once instead of
\* retrying
AttemptOutcome_NoRetryOnParseFailure(attempt, resp, category) ==
    IF resp.kind = "raise"
    THEN IF attempt < GEMINI_MAX_RETRIES THEN Retry ELSE ReturnRecipe(NoRecipe)
    ELSE IF resp.kind = "none" \/ resp.payload.form = "empty"
    THEN IF attempt < GEMINI_MAX_RETRIES THEN Retry ELSE ReturnRecipe(NoRecipe)
    ELSE ReturnRecipe(Parse(resp.payload, category))

\* AttemptOutcome with the loop bound off by one: range(1, MAX + 2)
AttemptOutcome_OneMoreAttempt(attempt, resp, category) ==
    IF resp.kind = "raise"
    THEN IF attempt <= GEMINI_MAX_RETRIES THEN Retry ELSE ReturnRecipe(NoRecipe)
    ELSE IF resp.kind = "none" \/ resp.payload.form = "empty"
    THEN IF attempt <= GEMINI_MAX_RETRIES THEN Retry ELSE ReturnRecipe(NoRecipe)
    ELSE LET recipe == Parse(resp.payload, category)
         IN IF recipe # NoRecipe THEN ReturnRecipe(recipe)
            ELSE IF attempt <= GEMINI_MAX_RETRIES THEN Retry ELSE ReturnRecipe(NoRecipe)

\* one iteration of the for loop, from the result of the underlying call to
\* `continue`, `return` or the end of the loop (which returns None)
AttemptOutcome(attempt, resp, category) ==
    IF resp.kind = "raise"
    \* except Exception: wait and go on, or log the exhaustion
    THEN IF attempt < GEMINI_MAX_RETRIES THEN Retry ELSE ReturnRecipe(NoRecipe)
    ELSE IF resp.kind = "none" \/ resp.payload.form = "empty"
    \* if not response_text
    THEN IF attempt < GEMINI_MAX_RETRIES THEN Retry ELSE ReturnRecipe(NoRecipe)
    ELSE LET recipe == Parse(resp.payload, category)
         IN IF recipe # NoRecipe THEN ReturnRecipe(recipe)
            ELSE IF attempt < GEMINI_MAX_RETRIES THEN Retry ELSE ReturnRecipe(NoRecipe)

IdleGen == [ pc |-> "idle", category |-> "", attempt |-> 0, calls |-> 0, fails |-> 0,
             last |-> NoResponse, result |-> NoRecipe ]

\* entering generate_recipe(category)
StartGen(category) == [IdleGen EXCEPT !.pc = "loop", !.category = category, !.attempt = 1]

\* an underlying call that raised, returned nothing, or returned a text that
\* does not parse into a record
CallFailed(resp, category) ==
    \/ resp.kind \in {"raise", "none"}
    \/ resp.payload.form = "empty"
    \/ Parse(resp.payload, category) = NoRecipe

\* an authentication / permission failure (HTTP 401, 403)
IsAuthError(resp) ==
    resp.kind = "raise" /\ (Contains(resp.err, "401") \/ Contains(resp.err, "403"))

\* the endpoint a generation call goes to: the url of _call_rest_api is built
\* from config.GEMINI_REST_ENDPOINT at every call
CallTarget(eng, cfg) ==
    IF eng.use_rest THEN [transport |-> "rest", endpoint |-> cfg.GEMINI_REST_ENDPOINT]
    ELSE [transport |-> "sdk", endpoint |-> ""]

\* ConfigAfterAttempt with the 404 branch switching the API version, as its
\* comment announces, instead of only logging
ConfigAfterAttempt_SwitchOn404(cfg, resp) ==
    IF resp.kind = "raise" /\ Contains(resp.err, "not found")
    THEN [cfg EXCEPT !.GEMINI_REST_ENDPOINT =
                         IF @ = BACKUP_ENDPOINT THEN RestEndpoint("v1beta") ELSE BACKUP_ENDPOINT]
    ELSE cfg

\* the configuration after one iteration: generate_recipe assigns nothing to it
ConfigAfterAttempt(cfg, resp) == cfg

Attempt ==
    /\ gen.pc = "loop"
    /\ \E resp \in CallResults(engine, config) :
         LET out == AttemptOutcome(gen.attempt, resp, gen.category)
         IN /\ gen' = [gen EXCEPT !.calls = @ + 1,
                                  !.fails = IF CallFailed(resp, gen.category) THEN @ + 1 ELSE @,
                                  !.last = resp,
                                  !.pc = out.pc,
                                  !.attempt = IF out.pc = "loop" THEN @ + 1 ELSE @,
                                  !.result = out.result]
            /\ config' = ConfigAfterAttempt(config, resp)
    /\ call_log' = call_log \cup {CallTarget(engine, config)}
    /\ UNCHANGED <<GENAI_AVAILABLE, engine, probes, invocations, norm, call, cycleVars>>

\* a caller invokes generate_recipe on the constructed engine
Invoke ==
    /\ engine.state = "ready"
    /\ cycle.pc = "idle"
    /\ gen.pc \in {"idle", "returned"}
    /\ invocations < MaxInvocations
    /\ \E i \in 1..Len(CONTENT_CATEGORIES) : gen' = StartGen(CONTENT_CATEGORIES[i])
    /\ invocations' = invocations + 1
    /\ UNCHANGED <<config, GENAI_AVAILABLE, engine, probes, call_log, norm, call, cycleVars>>

(***************************************************************************)
(* ZajmilAIChef.generate_and_publish                                       *)
(***************************************************************************)
MaxCycles == 1

IdleCycle == [ pc |-> "idle", category |-> "", recipe |-> NoRecipe, is_valid |-> FALSE,
               stages |-> <<>>, result |-> FALSE, before |-> EmptyStore ]

\* no generate_and_publish call was made and no performance file exists
NoCycles ==
    /\ cycle = IdleCycle
    /\ cycles = 0
    /\ published_count = 0
    /\ data = EmptyStore
    /\ file = NoFile
    /\ inserted = <<>>

\* return False, from a failed stage or from the except clause
Failed(c) == [c EXCEPT !.pc = "done", !.result = FALSE]

\* lines 1517-1523: the category is the argument or, without one, the
\* tracker's choice; then generate_recipe is entered
StartCycle ==
    /\ engine.state = "ready"
    /\ cycle.pc \in {"idle", "done"}
    /\ cycles < MaxCycles
    /\ \E arg \in {"", OTHER_CATEGORY} :
         \E category \in (IF arg = "" THEN get_next_category(data) ELSE {arg}) :
            /\ cycle' = [IdleCycle EXCEPT !.pc = "generate", !.category = category,
                                          !.stages = <<"Generate">>, !.before = data]
            /\ gen' = StartGen(category)
    /\ cycles' = cycles + 1
    /\ invocations' = invocations + 1
    /\ UNCHANGED <<engineVars, call_log, norm, call, published_count, data, file, inserted>>

\* AfterValidate with the `if not is_valid: return False` check left out
AfterValidate_IgnoresInvalid(v) == IF v.raised THEN "done" ELSE "optimize"

\* lines 1530-1532: the stage after validate
AfterValidate(v) == IF v.raised \/ ~v.is_valid THEN "done" ELSE "optimize"

\* lines 1524-1532: generate_recipe has returned; without a record the cycle
\* fails, with one the validator runs
Validate ==
    /\ cycle.pc = "generate"
    /\ gen.pc = "returned"
    /\ IF gen.result = NoRecipe
       THEN cycle' = Failed(cycle)
       ELSE LET v == validate(gen.result)
            IN cycle' = [cycle EXCEPT !.pc = AfterValidate(v),
                                      !.recipe = gen.result,
                                      !.is_valid = ~v.raised /\ v.is_valid,
                                      !.stages = Append(@, "Validate"),
                                      !.result = FALSE]
    /\ gen' = IdleGen
    /\ UNCHANGED <<engineVars, invocations, call_log, norm, call, cycles, published_count,
                   data, file, inserted>>

\* lines 1534-1538: optimize_for_seo, then analyze_recipe
Optimize ==
    /\ cycle.pc = "optimize"
    /\ \E o \in optimize_for_seo(cycle.recipe, config.AGGRESSIVE_SEO_MODE) :
         cycle' = IF o.raised
                  THEN Failed([cycle EXCEPT !.stages = Append(@, "Optimize")])
                  ELSE [cycle EXCEPT !.pc = "publish",
                                     !.recipe = analyze_recipe(o.recipe),
                                     !.stages = Append(@, "Optimize")]
    /\ UNCHANGED <<engineVars, genVars, norm, call, cycles, published_count, data, file, inserted>>

\* AfterPublish with a failed publish tried again within the cycle
AfterPublish_RetriesOnFailure(post_id) == IF post_id = "None" THEN "publish" ELSE "track"

\* lines 1542-1544: the stage after publish_recipe
AfterPublish(post_id) == IF post_id = "None" THEN "done" ELSE "track"

\* BloggerPublisher.publish_recipe: the id of the post the service made
NewPostId(posts) == "post-" \o ToString(Len(posts) + 1)

\* lines 1540-1544: publish_recipe inserts the post and returns its id, or
\* catches the failure and returns None
Publish ==
    /\ cycle.pc = "publish"
    /\ \E accepted \in BOOLEAN :
         LET post_id == IF accepted THEN NewPostId(inserted) ELSE "None"
         IN /\ cycle' = [cycle EXCEPT !.pc = AfterPublish(post_id),
                                      !.recipe.post_id = post_id,
                                      !.stages = Append(@, "Publish")]
            /\ inserted' = IF accepted
                           THEN Append(inserted, [ title    |-> cycle.recipe.title,
                                                   labels   |-> cycle.recipe.tags,
                                                   is_draft |-> config.DRAFT_MODE ])
                           ELSE inserted
    /\ UNCHANGED <<engineVars, genVars, norm, call, cycles, published_count, data, file>>

\* lines 1546-1554: track_recipe (with its _save), published_count, return True
Track ==
    /\ cycle.pc = "track"
    /\ data' = track_recipe(data, cycle.recipe, ~config.DRAFT_MODE)
    /\ \E outcome \in SaveOutcomes : file' = _save(file, data', outcome)
    /\ published_count' = published_count + 1
    /\ cycle' = [cycle EXCEPT !.pc = "done", !.result = TRUE, !.stages = Append(@, "Track")]
    /\ UNCHANGED <<engineVars, genVars, norm, call, cycles, inserted>>

(***************************************************************************)
(* Specification of the generation client: construction, then invocations  *)
(* of generate_recipe                                                      *)
(***************************************************************************)
ConfiguredModels == {"gemini-1.5-flash", "models/gemini-1.5-pro-latest"}

NewConfig(model, version, use_rest) ==
    [ GEMINI_MODEL         |-> model,
      GEMINI_API_VERSION   |-> version,
      USE_REST_API         |-> use_rest,
      GEMINI_REST_ENDPOINT |-> RestEndpoint(version),
      DRAFT_MODE           |-> FALSE,
      AGGRESSIVE_SEO_MODE  |-> TRUE ]

NewEngine == [state |-> "new", use_rest |-> FALSE, model_name |-> "", sdk_model |-> "None"]

IdleNorm == [pc |-> "idle", x |-> "", once |-> "", twice |-> ""]

\* no method is being called on its own
NoCall == [pc |-> "none"]

InitEngine ==
    /\ \E m \in ConfiguredModels, v \in ApiVersions, r \in BOOLEAN :
         config = NewConfig(m, v, r)
    /\ GENAI_AVAILABLE \in BOOLEAN
    /\ engine = NewEngine
    /\ probes = <<>>
    /\ gen = IdleGen
    /\ invocations = 0
    /\ call_log = {}
    /\ norm = IdleNorm
    /\ call = NoCall
    /\ NoCycles

NextEngine == EngineInit \/ Invoke \/ Attempt

SpecEngine == InitEngine /\ [][NextEngine]_vars

(***************************************************************************)
(* Specification of model-name normalization: the function applied to a    *)
(* name, and applied again to its own output                               *)
(***************************************************************************)
MaxNameParts == 3

ModelNameParts == { "models/", "Models/", " ", "-latest", "flash", "pro", "gemini",
                    "gemini-1.5-flash", "gemini-1.5-pro-002", "GEMINI-PRO", "gpt-4" }

RECURSIVE ModelNames(_)
ModelNames(n) == IF n = 0 THEN {""}
                 ELSE LET shorter == ModelNames(n - 1)
                      IN shorter \cup { a \o b : a \in shorter, b \in ModelNameParts }

InitNorm ==
    /\ config = NewConfig("gemini-1.5-flash", "v1beta", TRUE)
    /\ GENAI_AVAILABLE = FALSE
    /\ engine = NewEngine
    /\ probes = <<>>
    /\ gen = IdleGen
    /\ invocations = 0
    /\ call_log = {}
    /\ NoCycles
    /\ \E x \in ModelNames(MaxNameParts) : norm = [IdleNorm EXCEPT !.pc = "new", !.x = x]
    /\ call = NoCall

NormalizeOnce ==
    /\ norm.pc = "new"
    /\ norm' = [norm EXCEPT !.pc = "once", !.once = _smart_normalize_model_name(norm.x)]
    /\ UNCHANGED <<engineVars, genVars, cycleVars, call>>

NormalizeAgain ==
    /\ norm.pc = "once"
    /\ norm' = [norm EXCEPT !.pc = "twice", !.twice = _smart_normalize_model_name(norm.once)]
    /\ UNCHANGED <<engineVars, genVars, cycleVars, call>>

NextNorm == NormalizeOnce \/ NormalizeAgain

SpecNorm == InitNorm /\ [][NextNorm]_vars

(***************************************************************************)
(* Methods called on their own: nothing else of the program is running     *)
(***************************************************************************)
NothingRunning ==
    /\ config = NewConfig("gemini-1.5-flash", "v1beta", TRUE)
    /\ GENAI_AVAILABLE = FALSE
    /\ engine = NewEngine
    /\ probes = <<>>
    /\ gen = IdleGen
    /\ invocations = 0
    /\ call_log = {}
    /\ NoCycles
    /\ norm = IdleNorm

otherVars == <<engineVars, genVars, cycleVars, norm>>

(***************************************************************************)
(* Specification of _generate_optimized_meta over descriptions, configured *)
(* META_DESCRIPTION_LENGTH values and configured first primary keywords    *)
(***************************************************************************)
MaxDescriptionLen == 130

MetaText == LongDescription \o ". " \o LongDescription

\* META_DESCRIPTION_LENGTH is read from the environment without a check
MetaCaps == {15, 19, 40, 60, 160}

MetaKeywords == SeqToSet(PRIMARY_KEYWORDS)

InitMeta ==
    /\ NothingRunning
    /\ \E n \in 0..MaxDescriptionLen, cap \in MetaCaps, kw \in MetaKeywords :
         call = [ pc |-> "meta", description |-> SubSeq(MetaText, 1, n), cap |-> cap,
                  primary_keyword |-> kw, out |-> "" ]

GenerateMetaCall ==
    /\ call.pc = "meta"
    /\ call' = [call EXCEPT !.pc = "meta_done",
                            !.out = GenerateMeta(call.description, call.cap,
                                                 call.primary_keyword)]
    /\ UNCHANGED otherVars

NextMeta == GenerateMetaCall

SpecMeta == InitMeta /\ [][NextMeta]_vars

\* C11: the meta description _generate_optimized_meta returns, suffix and
\* "..." included, is never longer than the configured
\* META_DESCRIPTION_LENGTH.
C11_MetaWithinCap == call.pc = "meta_done" => Len(call.out) <= call.cap

(***************************************************************************)
(* Specification of analyze_recipe over records around every threshold     *)
(***************************************************************************)
\* how far above a threshold the counts of the records go
MaxOver == 1

TitleWithTrigger ==
    "Wasfat basbousa with cream and pistachio for the whole family at home on a festive day"

TitleWithoutTrigger ==
    "basbousa with cream and pistachio for the whole family at home on a festive day at noon"

\* title lengths on both sides of 20, 30, 70 and 80
TitleLengths == {0, 19, 20, 29, 30, 70, 71, 80, 81}

ScoreTitles ==
    { SubSeq(t, 1, n) : t \in {TitleWithTrigger, TitleWithoutTrigger}, n \in TitleLengths }

AroundThreshold(min) == {0, min - 1, min, min + MaxOver}

\* word counts on both sides of TARGET_WORD_COUNT * 0.8 and TARGET_WORD_COUNT
ScoreWordCounts ==
    AroundThreshold((TARGET_WORD_COUNT * 8) \div 10) \cup AroundThreshold(TARGET_WORD_COUNT)

ScoreMetas == { SubSeq(MetaText, 1, n) : n \in {0, 99, 100} }

Repeat(x, n) == [ i \in 1..n |-> x ]

ScoreRecords ==
    { [ Parse([form |-> "json", object |-> 1], CONTENT_CATEGORIES[1])
          EXCEPT !.title = t, !.word_count = w,
                 !.ingredients = Repeat(IngredientPool[1], ni),
                 !.steps = Repeat(StepPool[1], ns),
                 !.keywords = Repeat(KeywordPool[1], nk),
                 !.meta_description = m ]
      : t \in ScoreTitles, w \in ScoreWordCounts,
        ni \in {MIN_RECIPE_INGREDIENTS - 1, MIN_RECIPE_INGREDIENTS + MaxOver - 1},
        ns \in {MIN_RECIPE_STEPS - 1, MIN_RECIPE_STEPS + MaxOver - 1},
        nk \in {2, 3, 5, 5 + MaxOver}, m \in ScoreMetas }

InitScore ==
    /\ NothingRunning
    /\ \E r \in ScoreRecords : call = [pc |-> "analyze", recipe |-> r, grade |-> ""]

AnalyzeCall ==
    /\ call.pc = "analyze"
    /\ call' = [call EXCEPT !.pc = "analyze_done",
                            !.recipe = analyze_recipe(call.recipe),
                            !.grade = Grade(SeoScore(call.recipe))]
    /\ UNCHANGED otherVars

NextScore == AnalyzeCall

SpecScore == InitScore /\ [][NextScore]_vars

\* every threshold of analyze_recipe met, as the record shows it
AllThresholdsMet(recipe) ==
    /\ 30 <= Len(recipe.title) /\ Len(recipe.title) <= 70
    /\ \E i \in 1..Len(ANALYSIS_WORDS) : Contains(Lower(recipe.title), ANALYSIS_WORDS[i])
    /\ recipe.word_count >= TARGET_WORD_COUNT
    /\ Len(recipe.ingredients) >= MIN_RECIPE_INGREDIENTS
    /\ Len(recipe.steps) >= MIN_RECIPE_STEPS
    /\ Len(recipe.keywords) >= 6
    /\ Len(recipe.meta_description) >= 100

\* C12: the score analyze_recipe gives is between 0 and 100, and a record
\* that meets every threshold scores at least 85 and is graded in the top
\* bucket.
C12_ScoreInRange ==
    call.pc = "analyze_done" =>
        /\ 0 <= call.recipe.seo_score /\ call.recipe.seo_score <= 100
        /\ AllThresholdsMet(call.recipe) =>
              call.recipe.seo_score >= 85 /\ call.grade = Grade(85)

\* a record that meets every threshold exactly at its boundary was scored
C12_Witness ==
    /\ call.pc = "analyze_done"
    /\ AllThresholdsMet(call.recipe)
    /\ Len(call.recipe.title) = 70
    /\ call.recipe.word_count = TARGET_WORD_COUNT
    /\ Len(call.recipe.keywords) = 6
    /\ Len(call.recipe.meta_description) = 100

(***************************************************************************)
(* Specification of ContentValidator.validate over records around every    *)
(* threshold, with the keywords a response can give (a list, or null)      *)
(***************************************************************************)
ValidateRecords ==
    { [ Parse([form |-> "json", object |-> 1], CONTENT_CATEGORIES[1])
          EXCEPT !.title = SubSeq(MetaText, 1, nt),
                 !.description = SubSeq(MetaText, 1, nd),
                 !.word_count = w,
                 !.ingredients = Repeat(IngredientPool[1], ni),
                 !.steps = Repeat(StepPool[1], ns),
                 !.keywords = Repeat(KeywordPool[1], IF nk < 0 THEN 0 ELSE nk),
                 !.none = IF nk < 0 THEN {"keywords"} ELSE {} ]
      : nt \in {9, 10, 100, 101}, nd \in {79, 80},
        w \in {MinWords - 1, MinWords},
        ni \in {MIN_RECIPE_INGREDIENTS - 1, MIN_RECIPE_INGREDIENTS,
                MIN_RECIPE_INGREDIENTS + MaxOver},
        ns \in {MIN_RECIPE_STEPS - 1, MIN_RECIPE_STEPS},
        \* -1: "keywords": null in the response, None on the record
        nk \in {-1, 0, 2, 3} }

InitValidate ==
    /\ NothingRunning
    /\ \E r \in ValidateRecords :
         call = [ pc |-> "validate", recipe |-> r, raised |-> FALSE, is_valid |-> FALSE,
                  messages |-> <<>> ]

ValidateCall ==
    /\ call.pc = "validate"
    /\ LET v == validate(call.recipe)
       IN call' = [call EXCEPT !.pc = "validate_done", !.raised = v.raised,
                               !.is_valid = v.is_valid, !.messages = v.messages]
    /\ UNCHANGED otherVars

NextValidate == ValidateCall

SpecValidate == InitValidate /\ [][NextValidate]_vars

\* no error check of the validator fires on the record
NoErrorCheckFires(recipe) ==
    /\ Len(recipe.title) >= 10
    /\ Len(recipe.ingredients) >= MIN_RECIPE_INGREDIENTS
    /\ Len(recipe.steps) >= MIN_RECIPE_STEPS
    /\ recipe.word_count * 10 >= TARGET_WORD_COUNT * 7
    /\ Len(recipe.description) >= 80

\* C13: validate returns a verdict for every record: ok exactly when no
\* error check fires, whatever the warnings; fewer than
\* MIN_RECIPE_INGREDIENTS ingredients give ok = false and the
\* ingredient-count message; exactly MIN_RECIPE_INGREDIENTS do not give that
\* message.
C13_ValidateVerdict ==
    call.pc = "validate_done" =>
        /\ ~call.raised
        /\ call.is_valid <=> NoErrorCheckFires(call.recipe)
        /\ Len(call.recipe.ingredients) < MIN_RECIPE_INGREDIENTS =>
              ~call.is_valid /\ "ingredients_few" \in SeqToSet(call.messages)
        /\ Len(call.recipe.ingredients) = MIN_RECIPE_INGREDIENTS =>
              "ingredients_few" \notin SeqToSet(call.messages)

(***************************************************************************)
(* Specification of get_next_category over the categories_count dicts a    *)
(* store can hold: any categories tracked so far, in any insertion order   *)
(***************************************************************************)
MaxCount == 4

RECURSIVE CountDicts(_)
CountDicts(S) ==
    {<<>>} \cup UNION { { <<[cat |-> c, count |-> n]>> \o rest
                           : n \in 1..MaxCount, rest \in CountDicts(S \ {c}) }
                         : c \in S }

StoreWithCounts(counts) == [EmptyStore EXCEPT !.statistics.categories_count = counts]

InitSelect ==
    /\ NothingRunning
    /\ \E counts \in CountDicts(AllCategories) :
         call = [pc |-> "select", counts |-> counts, category |-> ""]

SelectCategory ==
    /\ call.pc = "select"
    /\ \E c \in get_next_category(StoreWithCounts(call.counts)) :
         call' = [call EXCEPT !.pc = "select_done", !.category = c]
    /\ UNCHANGED otherVars

NextSelect == SelectCategory

SpecSelect == InitSelect /\ [][NextSelect]_vars

\* the smallest count the dict holds
LeastCount(counts) ==
    CHOOSE n \in { counts[i].count : i \in 1..Len(counts) } :
        \A i \in 1..Len(counts) : n <= counts[i].count

\* how many categories of the dict were used less often than cat
UsedLess(counts, cat) ==
    Cardinality({ i \in 1..Len(counts) : counts[i].count < CountOf(counts, cat) })

\* C14: without history the category is one of the configured ones; with
\* history it is a category of the store's counts: one with the least count
\* while that count is below 3, otherwise one of the three least-used.
C14_LeastUsedCategory ==
    call.pc = "select_done" =>
        IF Len(call.counts) = 0
        THEN call.category \in SeqToSet(CONTENT_CATEGORIES)
        ELSE /\ CountOf(call.counts, call.category) > 0
             /\ LeastCount(call.counts) < 3 =>
                   CountOf(call.counts, call.category) = LeastCount(call.counts)
             /\ LeastCount(call.counts) >= 3 => UsedLess(call.counts, call.category) <= 2

\* four categories used at least three times each, and the one selected is
\* not the least-used
C14_Witness ==
    /\ call.pc = "select_done"
    /\ Len(call.counts) = 4
    /\ LeastCount(call.counts) >= 3
    /\ UsedLess(call.counts, call.category) = 2

(***************************************************************************)
(* Config.calculate_optimal_article_count. ARTICLE_SAFETY_FACTOR is a      *)
(* decimal with one digit after the point and is kept in tenths, so that   *)
(* raw_count is the fraction num / den of two integers                     *)
(***************************************************************************)
FIXED_ARTICLE_COUNT == 50
Tenths == 10

\* int(raw_count): truncation toward zero
IntPart(num, den) == IF num >= 0 THEN num \div den ELSE -((-num) \div den)

\* line 324 with 1 added whether or not raw_count has a fractional part
CalculatedCount_AlwaysAddsOne(num, den) == IntPart(num, den) + 1

\* line 324: int(raw_count) + (1 if raw_count % 1 > 0 else 0)
CalculatedCount(num, den) == IntPart(num, den) + (IF num % den > 0 THEN 1 ELSE 0)

Max(a, b) == IF a >= b THEN a ELSE b
Min(a, b) == IF a <= b THEN a ELSE b

calculate_optimal_article_count(cfg) ==
    IF ~cfg.ENABLE_DYNAMIC_ARTICLE_COUNT THEN FIXED_ARTICLE_COUNT
    ELSE LET num == cfg.MIN_VIEWS_FETCH_HOURS * cfg.ARTICLE_SAFETY_FACTOR
             den == cfg.PUBLISH_INTERVAL_HOURS * Tenths
             calculated_count == CalculatedCount(num, den)
         IN Max(cfg.MIN_ARTICLES_LIMIT, Min(calculated_count, cfg.MAX_ARTICLES_LIMIT))

\* settings Config.validate accepts: hours of fetch window not below the
\* publish interval, safety factor in (0, 2], limits 1 <= min <= max
CountConfigs ==
    { [ ENABLE_DYNAMIC_ARTICLE_COUNT |-> dyn,
        MIN_VIEWS_FETCH_HOURS  |-> f,
        PUBLISH_INTERVAL_HOURS |-> p,
        ARTICLE_SAFETY_FACTOR  |-> sf,
        MIN_ARTICLES_LIMIT     |-> lim[1],
        MAX_ARTICLES_LIMIT     |-> lim[2] ]
      : dyn \in BOOLEAN,
        f \in {24, 36, 48, 60, 72}, p \in {6, 12, 24},
        sf \in {1, 5, 8, 10, 15, 20},
        lim \in { <<1, 100>>, <<1, 1>>, <<2, 3>>, <<3, 8>> } }

InitCount ==
    /\ NothingRunning
    /\ \E cfg \in CountConfigs : call = [pc |-> "count", cfg |-> cfg, out |-> 0]

CountCall ==
    /\ call.pc = "count"
    /\ call' = [call EXCEPT !.pc = "count_done",
                            !.out = calculate_optimal_article_count(call.cfg)]
    /\ UNCHANGED otherVars

NextCount == CountCall

SpecCount == InitCount /\ [][NextCount]_vars

\* n is the ceiling of num / den (den > 0)
IsCeiling(n, num, den) == n * den >= num /\ (n - 1) * den < num

\* the settings with the given hours and safety factor, default limits
CountOfSettings(f, p, sf) ==
    [ ENABLE_DYNAMIC_ARTICLE_COUNT |-> TRUE, MIN_VIEWS_FETCH_HOURS |-> f,
      PUBLISH_INTERVAL_HOURS |-> p, ARTICLE_SAFETY_FACTOR |-> sf,
      MIN_ARTICLES_LIMIT |-> 1, MAX_ARTICLES_LIMIT |-> 100 ]

RECURSIVE Pow2(_)
Pow2(n) == IF n = 0 THEN 1 ELSE 2 * Pow2(n - 1)

\* int(x) of a non-negative time x: the fraction of a second is dropped
WholeSeconds(x) == (x \div Tenths) * Tenths

\* lines 1027-1032: int(min(2 ** attempt + jitter, 60))
_calculate_backoff(attempt, jitter) ==
    WholeSeconds(Min(Pow2(attempt) * Tenths + jitter, 60 * Tenths))

\* lines 869-873, 883-887, 904-909: the wait after a failed attempt
WaitTime(attempt, resp, jitter) ==
    IF resp.kind = "raise"
    THEN LET error_msg == Lower(resp.err)
         IN IF Contains(error_msg, "quota") \/ Contains(error_msg, "429")
            THEN 60 * attempt * Tenths
            ELSE _calculate_backoff(attempt, jitter)
    ELSE _calculate_backoff(attempt, jitter)

\* the failures of an attempt: an exception of either transport, an empty
\* response, a text that does not parse
FailedResponses ==
    { Raise(m) : m \in RestErrors("gemini-1.5-flash", "v1beta") \cup SdkErrors }
    \cup { ReturnNone, ReturnText([form |-> "nojson", object |-> 0]) }

InitBackoff ==
    /\ NothingRunning
    /\ \E attempt \in 1..(GEMINI_MAX_RETRIES - 1), resp \in FailedResponses, jitter \in 0..Tenths :
         call = [pc |-> "failed", attempt |-> attempt, resp |-> resp, jitter |-> jitter,
                 wait_time |-> 0]

WaitCall ==
    /\ call.pc = "failed"
    /\ call' = [call EXCEPT !.pc = "waiting",
                            !.wait_time = WaitTime(call.attempt, call.resp, call.jitter)]
    /\ UNCHANGED otherVars

NextBackoff == WaitCall

SpecBackoff == InitBackoff /\ [][NextBackoff]_vars

\* the rate-limit failures: HTTP 429 of the REST API, quota error of the SDK
RateLimited(resp) == resp \in { Raise("Rate limit exceeded"), Raise("429 quota exceeded") }

\* C21: the wait after failed attempt a is 60 * a seconds for a rate-limit
\* error and min(2^a + jitter, 60) seconds for every other failure.
C21_BackoffWait ==
    call.pc = "waiting" =>
        call.wait_time = IF RateLimited(call.resp)
                         THEN 60 * call.attempt * Tenths
                         ELSE Min(Pow2(call.attempt) * Tenths + call.jitter, 60 * Tenths)

(***************************************************************************)
(* Specification of _parse_response called on each response text of the    *)
(* model                                                                   *)
(***************************************************************************)
InitParse ==
    /\ NothingRunning
    /\ \E payload \in Payloads, category \in AllCategories :
         call = [pc |-> "parse", payload |-> payload, category |-> category,
                 recipe |-> NoRecipe]

ParseCall ==
    /\ call.pc = "parse"
    /\ call' = [call EXCEPT !.pc = "parse_done",
                            !.recipe = _parse_response(call.payload, call.category)]
    /\ UNCHANGED otherVars

NextParse == ParseCall

SpecParse == InitParse /\ [][NextParse]_vars

\* the response is a JSON object with every required key present and not
\* empty
HasRequiredKeys(payload) ==
    /\ payload.form = "json"
    /\ \A i \in 1..Len(REQUIRED_FIELDS) :
          LET f == REQUIRED_FIELDS[i]
              obj == DataObjects[payload.object]
          IN /\ f \in obj.keys
             /\ f \notin obj.nulls
             /\ IF f \in SeqFields THEN obj[f] # <<>> ELSE obj[f] # ""

\* the key is present with a number as its value
Numeric(obj, key) == key \in obj.keys /\ key \notin obj.nulls \cup obj.texts

\* C22: a response with all required keys parses into a record, and
\* prep_time, cook_time and servings are 30, 30 and 4 wherever the key is
\* absent or its value is no number.
C22_NumericDefaults ==
    (call.pc = "parse_done" /\ HasRequiredKeys(call.payload)) =>
        LET obj == DataObjects[call.payload.object]
        IN /\ call.recipe # NoRecipe
           /\ ~Numeric(obj, "prep_time") => call.recipe.prep_time = 30
           /\ ~Numeric(obj, "cook_time") => call.recipe.cook_time = 30
           /\ ~Numeric(obj, "servings") => call.recipe.servings = 4

\* the words of the items of a list, counted item by item
WordsOf(list) == SumSeq([ i \in 1..Len(list) |-> WordCount(list[i]) ])

\* C25: the word_count of a parsed record is the number of words of its
\* title, its description, every ingredient and every step together.
C25_WordCountIsSum ==
    (call.pc = "parse_done" /\ call.recipe # NoRecipe) =>
        call.recipe.word_count = WordCount(call.recipe.title)
                                 + WordCount(call.recipe.description)
                                 + WordsOf(call.recipe.ingredients)
                                 + WordsOf(call.recipe.steps)

(***************************************************************************)
(* Specification of the title rewrite of optimize_for_seo, applied twice   *)
(***************************************************************************)
\* what a title begins and ends with
TitleParts == { "", "tariqat", "tariqat amal", "wasfat", "kayfiyat tahdir", "kayfiyat", "amal" }

\* titles made of a beginning, a dish or none, and an end
Titles ==
    { Strip(a \o m \o b) : a \in TitleParts, m \in {" ", " kayk "}, b \in TitleParts }

\* lines 1135-1136: the title after optimize_for_seo
TitleAfterOptimize(title, aggressive) == IF aggressive THEN _optimize_title(title) ELSE title

InitTitle ==
    /\ NothingRunning
    /\ \E title \in Titles, aggressive \in BOOLEAN :
         call = [pc |-> "title", title |-> title, aggressive |-> aggressive,
                 once |-> "", twice |-> ""]

OptimizeTitleOnce ==
    /\ call.pc = "title"
    /\ call' = [call EXCEPT !.pc = "title_once",
                            !.once = TitleAfterOptimize(call.title, call.aggressive)]
    /\ UNCHANGED otherVars

OptimizeTitleAgain ==
    /\ call.pc = "title_once"
    /\ call' = [call EXCEPT !.pc = "title_twice",
                            !.twice = TitleAfterOptimize(call.once, call.aggressive)]
    /\ UNCHANGED otherVars

NextTitle == OptimizeTitleOnce \/ OptimizeTitleAgain

SpecTitle == InitTitle /\ [][NextTitle]_vars

\* the title holds one of the search words the trigger phrases are made of
HasTriggerWord(title) ==
    Contains(title, "tariqat") \/ Contains(title, "wasfat") \/ Contains(title, "kayfiyat")

\* C23: with the aggressive flag, the title gets the phrase "tariqat amal"
\* in front exactly when it holds none of the trigger phrases and does not
\* begin with "tariqat"; the rewritten title holds a trigger word, and a
\* second rewrite changes nothing.
C23_TitleRewrite ==
    (call.pc \in {"title_once", "title_twice"} /\ call.aggressive) =>
        /\ call.once =
             IF /\ ~Contains(call.title, "tariqat amal")
                /\ ~Contains(call.title, "wasfat")
                /\ ~Contains(call.title, "kayfiyat tahdir")
                /\ ~StartsWith(call.title, "tariqat")
             THEN "tariqat amal " \o call.title
             ELSE call.title
        /\ HasTriggerWord(call.once)
        /\ call.pc = "title_twice" => call.twice = call.once

\* a title with a search word that is neither a trigger phrase nor in front
\* was rewritten, and rewritten again
C23_Witness ==
    /\ call.pc = "title_twice"
    /\ call.aggressive
    /\ call.title = "kayk kayfiyat"
    /\ call.once = "tariqat amal kayk kayfiyat"

(***************************************************************************)
(* Properties of the generation client (SpecEngine)                        *)
(***************************************************************************)
\* C1: while generate_recipe is in its loop every call so far has failed and
\* fewer than GEMINI_MAX_RETRIES calls were made, so the next call is made;
\* as soon as a call returns a parseable response, generate_recipe has
\* returned the record parsed from that response after exactly k+1 calls,
\* k < GEMINI_MAX_RETRIES being the number of failed calls; and it returns
\* without a record only after GEMINI_MAX_RETRIES failures.
C1_RetryUntilSuccess ==
    /\ gen.pc = "loop" =>
          /\ gen.calls = gen.fails
          /\ gen.fails < GEMINI_MAX_RETRIES
          /\ gen.attempt = gen.calls + 1
    /\ (gen.calls > 0 /\ ~CallFailed(gen.last, gen.category)) =>
          /\ gen.pc = "returned"
          /\ gen.result = Parse(gen.last.payload, gen.category)
          /\ gen.result # NoRecipe
          /\ gen.fails < GEMINI_MAX_RETRIES
          /\ gen.calls = gen.fails + 1
    /\ (gen.pc = "returned" /\ CallFailed(gen.last, gen.category)) =>
          gen.fails >= GEMINI_MAX_RETRIES

\* generate_recipe returned a record after GEMINI_MAX_RETRIES - 1 failed calls
C1_Witness ==
    /\ gen.pc = "returned"
    /\ gen.result # NoRecipe
    /\ gen.fails = GEMINI_MAX_RETRIES - 1
    /\ gen.calls = GEMINI_MAX_RETRIES

\* C2: generate_recipe never makes more than GEMINI_MAX_RETRIES underlying
\* calls and never leaves by an exception; once GEMINI_MAX_RETRIES calls have
\* failed it has returned None having made exactly GEMINI_MAX_RETRIES calls.
C2_ExhaustionReturnsNone ==
    /\ gen.calls <= GEMINI_MAX_RETRIES
    /\ gen.pc \in {"idle", "loop", "returned"}
    /\ gen.fails >= GEMINI_MAX_RETRIES =>
          /\ gen.pc = "returned"
          /\ gen.result = NoRecipe
          /\ gen.calls = GEMINI_MAX_RETRIES

\* all attempts failed, the last one by an exception, with a parse failure
\* somewhere before
C2_Witness ==
    /\ gen.pc = "returned"
    /\ gen.result = NoRecipe
    /\ gen.fails = GEMINI_MAX_RETRIES
    /\ gen.last.kind = "raise"

\* C3: a step in which an underlying call fails with an authentication or
\* permission error ends the invocation: generate_recipe is not left in its
\* loop, about to call again.
C3_AuthErrorAborts ==
    [][(gen'.calls = gen.calls + 1 /\ IsAuthError(gen'.last)) => gen'.pc # "loop"]_vars

\* C8: in REST mode, whichever version is configured, a failed first probe
\* is followed by exactly one probe against the alternate version, and the
\* constructor raises exactly when both probes have failed.
C8_ProbeFallback ==
    (engine.state # "new" /\ config.USE_REST_API /\ ~probes[1].ok) =>
        /\ Len(probes) = 2
        /\ probes[2].endpoint # probes[1].endpoint
        /\ (engine.state = "raised") = ~probes[2].ok

\* the endpoint of the probe that succeeded during construction
ProbedEndpoint == probes[Len(probes)].endpoint

ProbeSucceeded == Len(probes) > 0 /\ probes[Len(probes)].ok

UsableRest ==
    /\ engine.use_rest
    /\ \E i \in 1..Len(probes) :
         probes[i].ok /\ probes[i].endpoint = config.GEMINI_REST_ENDPOINT

\* the engine is in SDK mode and holds an initialized SDK model
UsableSdk == ~engine.use_rest /\ engine.sdk_model # "None"

\* C29: when the constructor has returned without raising, the engine is in
\* REST mode with an endpoint that a probe found working, or in SDK mode
\* with an initialized SDK model.
C29_UsableTransport == engine.state = "ready" => UsableRest \/ UsableSdk

(***************************************************************************)
(* Properties of model-name normalization (SpecNorm)                       *)
(***************************************************************************)
\* C6: normalization is idempotent: normalizing the output of a
\* normalization gives that output again.
C6_Idempotent == norm.pc = "twice" => norm.twice = norm.once

\* C7: the output of normalization is a member of SUPPORTED_MODELS.
C7_OutputSupported == norm.pc \in {"once", "twice"} => norm.once \in SUPPORTED_MODELS

(***************************************************************************)
(* Specification of the workflow: the state after ZajmilAIChef.__init__,   *)
(* then generate_and_publish calls                                         *)
(***************************************************************************)
\* a record as track_recipe receives it, for the stores of earlier sessions
EarlierRecipe(category) ==
    LET parsed == Parse([form |-> "json", object |-> 1], category)
        optimized == CHOOSE o \in optimize_for_seo(parsed, TRUE) : ~o.raised
    IN [analyze_recipe(optimized.recipe) EXCEPT !.post_id = "earlier"]

\* EarlierRecipe tabulated over the categories of the model
EarlierRecipes == [ c \in AllCategories |-> EarlierRecipe(c) ]

RECURSIVE StoreAfter(_)
\* the store after track_recipe was called for each category of history
StoreAfter(history) ==
    IF Len(history) = 0 THEN EmptyStore
    ELSE track_recipe(StoreAfter(SubSeq(history, 1, Len(history) - 1)),
                      EarlierRecipes[history[Len(history)]], TRUE)

\* what earlier sessions have tracked: nothing, one recipe, three of each
\* configured category
Histories ==
    { <<>>,
      << CONTENT_CATEGORIES[1] >>,
      CONTENT_CATEGORIES \o CONTENT_CATEGORIES \o CONTENT_CATEGORIES }

\* (DRAFT_MODE, AGGRESSIVE_SEO_MODE) settings
Modes == { <<FALSE, TRUE>>, <<FALSE, FALSE>>, <<TRUE, TRUE>> }

Init ==
    /\ GENAI_AVAILABLE = TRUE
    /\ \E mode \in Modes :
         LET cfg == [NewConfig("gemini-1.5-flash", "v1beta", TRUE)
                        EXCEPT !.DRAFT_MODE = mode[1], !.AGGRESSIVE_SEO_MODE = mode[2]]
             \* the engine of a session whose first probe succeeded
             built == GeminiChefEngine_init(cfg, TRUE, TRUE, TRUE, TRUE)
         IN /\ config = built.config
            /\ engine = built.engine
            /\ probes = built.probes
    /\ gen = IdleGen
    /\ invocations = 0
    /\ call_log = {}
    /\ norm = IdleNorm
    /\ call = NoCall
    /\ cycle = IdleCycle
    /\ cycles = 0
    /\ published_count = 0
    /\ \E history \in Histories :
         /\ data = StoreAfter(history)
         /\ file = IF Len(history) = 0 THEN NoFile
                   ELSE [status |-> "complete", store |-> StoreAfter(history)]
    /\ inserted = <<>>

Next == StartCycle \/ Attempt \/ Validate \/ Optimize \/ Publish \/ Track

Spec == Init /\ [][Next]_vars

(***************************************************************************)
(* Properties of the workflow (Spec)                                       *)
(***************************************************************************)
\* the stages in the order generate_and_publish announces them
STAGES == << "Generate", "Validate", "Optimize", "Publish", "Track" >>

\* C4: the stages a cycle has run are always a prefix of Generate, Validate,
\* Optimize, Publish, Track; a stage after Generate ran only with a record
\* from generation, a stage after Validate only with validation ok, Track
\* only with a post id from Publish; a cycle that ended before Track has
\* result False, and result True needs all five stages.
C4_StagesInOrder ==
    /\ Len(cycle.stages) <= Len(STAGES)
    /\ cycle.stages = SubSeq(STAGES, 1, Len(cycle.stages))
    /\ Len(cycle.stages) >= 2 => cycle.recipe # NoRecipe
    /\ Len(cycle.stages) >= 3 => cycle.is_valid
    /\ Len(cycle.stages) >= 4 => cycle.recipe # NoRecipe /\ cycle.is_valid
    /\ Len(cycle.stages) >= 5 => cycle.recipe.post_id # "None"
    /\ (cycle.pc = "done" /\ Len(cycle.stages) < Len(STAGES)) => ~cycle.result
    /\ cycle.result => cycle.pc = "done" /\ cycle.stages = STAGES

\* a cycle that ended at a failed Publish: four stages, result False, nothing
\* tracked
C4_Witness ==
    /\ cycle.pc = "done"
    /\ cycle.stages = SubSeq(STAGES, 1, 4)
    /\ cycle.recipe.post_id = "None"
    /\ ~cycle.result
    /\ inserted = <<>>

\* C5: until a cycle tracks, the store is the one the cycle started with; a
\* cycle that returned True outside draft mode has appended exactly one
\* entry, raised total_published by one and the count of its category by
\* one; a cycle that returned False has left the store as it was.
C5_TrackedOnceOnSuccess ==
    LET before == cycle.before
        stats == data.statistics
    IN /\ cycle.pc \in {"generate", "optimize", "publish", "track"} => data = before
       /\ (cycle.pc = "done" /\ ~cycle.result) => data = before
       /\ (cycle.pc = "done" /\ cycle.result /\ ~config.DRAFT_MODE) =>
             /\ Len(data.recipes) = Len(before.recipes) + 1
             /\ SubSeq(data.recipes, 1, Len(before.recipes)) = before.recipes
             /\ stats.total_published = before.statistics.total_published + 1
             /\ CountOf(stats.categories_count, cycle.category)
                  = CountOf(before.statistics.categories_count, cycle.category) + 1

\* a successful cycle, outside draft mode, in a category tracked before
C5_Witness ==
    /\ cycle.pc = "done"
    /\ cycle.result
    /\ ~config.DRAFT_MODE
    /\ CountOf(cycle.before.statistics.categories_count, cycle.category) > 0
    /\ Len(data.recipes) > 1

\* C10: when optimize_for_seo has returned, the record's word_count is the
\* word count of its current title, description, ingredients and steps.
C10_WordCountCurrent ==
    cycle.pc = "publish" =>
        cycle.recipe.word_count = ComputeWordCount(cycle.recipe.title,
                                                   cycle.recipe.description,
                                                   cycle.recipe.ingredients,
                                                   cycle.recipe.steps)

(***************************************************************************)
(* Specification of repeated automatic selection: get_next_category, then  *)
(* either track_recipe of the record published in the selected category or *)
(* a cycle that failed before tracking, over and over                      *)
(***************************************************************************)
MaxTracked == 5

\* what earlier runs with a --category argument have tracked
ShortHistories == {<<>>} \cup { <<c>> : c \in AllCategories }
                         \cup { <<c, d>> : c \in AllCategories, d \in AllCategories }

InitRepeat ==
    /\ NothingRunning
    /\ \E history \in ShortHistories :
         call = [pc |-> "repeat_select", store |-> StoreAfter(history), category |-> ""]

\* line 1518: category = self.analytics.get_next_category()
RepeatSelect ==
    /\ call.pc = "repeat_select"
    /\ \E c \in get_next_category(call.store) :
         call' = [call EXCEPT !.pc = "repeat_selected", !.category = c]
    /\ UNCHANGED otherVars

\* line 1547: the cycle published a record of the category and tracks it
RepeatTrack ==
    /\ call.pc = "repeat_selected"
    /\ Len(call.store.recipes) < MaxTracked
    /\ call' = [call EXCEPT !.pc = "repeat_select",
                            !.store = track_recipe(@, EarlierRecipes[call.category], TRUE)]
    /\ UNCHANGED otherVars

\* lines 1524-1544: the cycle returned False before tracking
RepeatFail ==
    /\ call.pc = "repeat_selected"
    /\ call' = [call EXCEPT !.pc = "repeat_select"]
    /\ UNCHANGED otherVars

NextRepeat == RepeatSelect \/ RepeatTrack \/ RepeatFail

\* the loop is sequential code: a selection that is due is made, a selected
\* cycle ends, and a cycle that can publish again and again does publish
SpecRepeat ==
    /\ InitRepeat
    /\ [][NextRepeat]_vars
    /\ WF_vars(RepeatSelect)
    /\ WF_vars(RepeatTrack \/ RepeatFail)
    /\ SF_vars(RepeatTrack)

\* C15: once the store is non-empty, a configured category that has no
\* tracked record is eventually selected.
C15_UntrackedEventuallySelected ==
    \A c \in SeqToSet(CONTENT_CATEGORIES) :
        [](( /\ Len(call.store.recipes) > 0
             /\ CountOf(call.store.statistics.categories_count, c) = 0 )
           => <>(call.pc = "repeat_selected" /\ call.category = c))

\* C30: whatever earlier runs have tracked, with or without a --category
\* argument, a category that get_next_category returns is one of
\* CONTENT_CATEGORIES.
C30_SelectedCategoryConfigured ==
    call.pc = "repeat_selected" => call.category \in SeqToSet(CONTENT_CATEGORIES)

(***************************************************************************)
(* ZajmilAIChef.run_continuous. call holds the position in the loop and    *)
(* the target, self.optimal_article_count. generate_recipe is taken in one *)
(* step here: it returns a parsed record or None. The except Exception     *)
(* clause of line 1589 is left out: generate_and_publish catches every     *)
(* Exception of a cycle, and the sleep length is positive.                 *)
(***************************************************************************)
MaxTarget == 2

\* line 1570: the while condition
LoopContinues_AtTarget(count, target) == count <= target

LoopContinues(count, target) == count < target

\* line 1575: the break after a cycle
TargetReached(count, target) == count >= target

\* what generate_recipe returns: None, a record that passes validation, one
\* with too few ingredients, one whose keywords are None
ReturnedRecipes(category) ==
    {NoRecipe} \cup { Parse([form |-> "json", object |-> d], category) : d \in {1, 7, 9} }

InitContinuous ==
    /\ GENAI_AVAILABLE = TRUE
    /\ \E mode \in Modes :
         LET cfg == [NewConfig("gemini-1.5-flash", "v1beta", TRUE)
                        EXCEPT !.DRAFT_MODE = mode[1], !.AGGRESSIVE_SEO_MODE = mode[2]]
             built == GeminiChefEngine_init(cfg, TRUE, TRUE, TRUE, TRUE)
         IN /\ config = built.config
            /\ engine = built.engine
            /\ probes = built.probes
    /\ gen = IdleGen
    /\ invocations = 0
    /\ call_log = {}
    /\ norm = IdleNorm
    \* the target is FIXED_ARTICLE_COUNT or a count within the limits
    /\ \E target \in 0..MaxTarget : call = [pc |-> "while", target |-> target]
    /\ cycle = IdleCycle
    /\ cycles = 0
    /\ published_count = 0
    /\ \E history \in Histories :
         /\ data = StoreAfter(history)
         /\ file = IF Len(history) = 0 THEN NoFile
                   ELSE [status |-> "complete", store |-> StoreAfter(history)]
    /\ inserted = <<>>

\* lines 1570-1573 and 1517-1523: the while condition holds, and
\* generate_and_publish() selects the category and enters generate_recipe
EnterCycle ==
    /\ call.pc = "while"
    /\ LoopContinues(published_count, call.target)
    /\ \E category \in get_next_category(data) :
         /\ cycle' = [IdleCycle EXCEPT !.pc = "generate", !.category = category,
                                       !.stages = <<"Generate">>, !.before = data]
         /\ gen' = StartGen(category)
    /\ call' = [call EXCEPT !.pc = "in_cycle"]
    /\ UNCHANGED <<engineVars, invocations, call_log, norm, cycles, published_count,
                   data, file, inserted>>

\* line 1570: the while condition fails and run_continuous returns
ExitLoop ==
    /\ call.pc = "while"
    /\ ~LoopContinues(published_count, call.target)
    /\ call' = [call EXCEPT !.pc = "finished"]
    /\ UNCHANGED <<engineVars, genVars, norm, cycleVars>>

\* line 1524: generate_recipe returns
GenerateRecipeReturns ==
    /\ call.pc = "in_cycle"
    /\ cycle.pc = "generate"
    /\ gen.pc = "loop"
    /\ \E recipe \in ReturnedRecipes(gen.category) :
         gen' = [gen EXCEPT !.pc = "returned", !.result = recipe]
    /\ UNCHANGED <<engineVars, invocations, call_log, norm, call, cycleVars>>

\* lines 1575-1583: after the cycle, break at the target or go to sleep
AfterCycle ==
    /\ call.pc = "in_cycle"
    /\ cycle.pc = "done"
    /\ call' = [call EXCEPT !.pc = IF TargetReached(published_count, call.target)
                                   THEN "finished" ELSE "sleep"]
    /\ UNCHANGED <<engineVars, genVars, norm, cycleVars>>

\* line 1583: time.sleep returns
Wake ==
    /\ call.pc = "sleep"
    /\ call' = [call EXCEPT !.pc = "while"]
    /\ UNCHANGED <<engineVars, genVars, norm, cycleVars>>

\* lines 1586-1588: KeyboardInterrupt is raised in the try block, during the
\* cycle or the sleep. It is no Exception, so no except clause of the cycle
\* catches it: the cycle ends where it is and the loop breaks
Interrupt ==
    /\ call.pc \in {"in_cycle", "sleep"}
    /\ call' = [call EXCEPT !.pc = "stopped"]
    /\ cycle' = IF cycle.pc = "done" THEN cycle ELSE [cycle EXCEPT !.pc = "interrupted"]
    /\ UNCHANGED <<engineVars, genVars, norm, cycles, published_count, data, file, inserted>>

NextContinuous ==
    \/ EnterCycle \/ ExitLoop \/ GenerateRecipeReturns \/ Validate \/ Optimize
    \/ Publish \/ Track \/ AfterCycle \/ Wake \/ Interrupt

\* a good record is returned
GenerateSucceeds == GenerateRecipeReturns /\ gen'.result = Parse([form |-> "json", object |-> 1], gen.category)
PublishSucceeds == Publish /\ cycle'.pc = "track"

\* the loop is sequential code, so every step that is due is taken
\* (interrupts are under no obligation to arrive); and cycles succeed
\* again and again: a stage that is reached again and again succeeds again
\* and again
SpecContinuous ==
    /\ InitContinuous
    /\ [][NextContinuous]_vars
    /\ WF_vars(EnterCycle \/ ExitLoop \/ GenerateRecipeReturns \/ Validate
                 \/ Publish \/ Track \/ AfterCycle \/ Wake)
    \* WF_vars(Optimize), whose steps are those that leave the optimize stage
    /\ []<>(cycle.pc # "optimize")
    /\ SF_vars(GenerateSucceeds)
    /\ SF_vars(PublishSucceeds)

\* C16: a cycle that returns False leaves published_count as it is; a cycle
\* starts only while published_count is below the target; published_count
\* never exceeds the target; and the loop ends, at the target unless an
\* interrupt ended it.
C16_LoopToTarget ==
    /\ [][(cycle.pc # "done" /\ cycle'.pc = "done" /\ ~cycle'.result)
             => published_count' = published_count]_vars
    /\ [][(cycle.pc # "generate" /\ cycle'.pc = "generate")
             => published_count < call.target]_vars
    /\ [](published_count <= call.target)
    /\ [](call.pc = "finished" => published_count = call.target)
    /\ <>(call.pc \in {"finished", "stopped"})

\* the loop ended after two successful cycles at a target of two
C16_Witness ==
    /\ call.pc = "finished"
    /\ call.target = 2
    /\ published_count = 2
    /\ Len(inserted) = 2

\* C20: when an interrupt has stopped the loop, the cycle it arrived in has
\* finished, and every post the Publishing Service accepted is tracked.
C20_NoMidCycleCancellation ==
    call.pc = "stopped" =>
        /\ cycle.pc \in {"idle", "done"}
        /\ Len(inserted) = published_count

(***************************************************************************)
(* Specification of the tracking store: track_recipe calls (each with its  *)
(* _save) from an empty store, and restarts of the process, which load the *)
(* store from the file                                                     *)
(***************************************************************************)
MaxRecords == 3

\* the records tracked: two categories, scores none, middling and full
TrackedRecipes ==
    { [EarlierRecipes[c] EXCEPT !.seo_score = sc]
      : c \in {CONTENT_CATEGORIES[1], CONTENT_CATEGORIES[2]}, sc \in {0, 60, 100} }

InitTracker ==
    /\ NothingRunning
    /\ call = [pc |-> "tracker", store |-> _load(NoFile), stored |-> NoFile, loaded |-> FALSE,
                last_save |-> "none"]

\* lines 1425-1452: track_recipe, ending in _save
TrackCall ==
    /\ call.pc = "tracker"
    /\ Len(call.store.recipes) < MaxRecords
    /\ \E recipe \in TrackedRecipes, published \in BOOLEAN, outcome \in SaveOutcomes :
         LET tracked == track_recipe(call.store, recipe, published)
         IN call' = [call EXCEPT !.store = tracked,
                                 !.stored = _save(call.stored, tracked, outcome),
                                 !.last_save = outcome]
    /\ UNCHANGED otherVars

\* line 1396: a new process constructs its AnalyticsTracker
Reload ==
    /\ call.pc = "tracker"
    /\ call' = [call EXCEPT !.store = _load(call.stored), !.loaded = TRUE,
                            !.last_save = "none"]
    /\ UNCHANGED otherVars

NextTracker == TrackCall \/ Reload

SpecTracker == InitTracker /\ [][NextTracker]_vars

\* the indices of the entries that satisfy a condition
Published(recipes) == { i \in 1..Len(recipes) : recipes[i].is_published }
OfCategory(recipes, c) == { i \in 1..Len(recipes) : recipes[i].category = c }
WithPositiveScore(recipes) == { i \in 1..Len(recipes) : recipes[i].seo_score > 0 }

RECURSIVE SumOver(_, _)
SumOver(recipes, I) ==
    IF I = {} THEN 0
    ELSE LET i == CHOOSE j \in I : TRUE
         IN recipes[i].seo_score + SumOver(recipes, I \ {i})

\* the statistics of a store are the aggregate of its recipes list; the mean
\* of no scores is the 0.0 of the empty store
StatisticsMatchRecipes(store) ==
    LET recipes == store.recipes
        stats == store.statistics
        positive == WithPositiveScore(recipes)
    IN /\ stats.total_published = Cardinality(Published(recipes))
       /\ stats.total_drafts = Len(recipes) - Cardinality(Published(recipes))
       /\ \A c \in AllCategories :
             CountOf(stats.categories_count, c) = Cardinality(OfCategory(recipes, c))
       /\ \A i \in 1..Len(stats.categories_count) : stats.categories_count[i].count > 0
       /\ stats.avg_seo_score =
             IF positive = {} THEN EmptyStore.statistics.avg_seo_score
             ELSE [sum |-> SumOver(recipes, positive), n |-> Cardinality(positive)]

\* C18: the statistics of the store in memory, and of the store a reload
\* of the file gives, equal the aggregate re-derived from its recipes list.
C18_StatisticsMatchRecipes ==
    /\ StatisticsMatchRecipes(call.store)
    /\ StatisticsMatchRecipes(_load(call.stored))

\* a reloaded store of three records: a category tracked twice, a draft, a
\* record without score
C18_Witness ==
    /\ call.loaded
    /\ call.store = _load(call.stored)
    /\ Len(call.store.recipes) = 3
    /\ CountOf(call.store.statistics.categories_count, CONTENT_CATEGORIES[1]) = 2
    /\ call.store.statistics.total_drafts = 1
    /\ Cardinality(WithPositiveScore(call.store.recipes)) = 2

Persisted(stored) == _load(stored).recipes

IsPrefix(p, q) == Len(p) <= Len(q) /\ SubSeq(q, 1, Len(p)) = p

\* C28: the recipes list persisted before a step is a prefix of the one
\* persisted after it.
C28_AppendOnly ==
    [][IsPrefix(Persisted(call.stored), Persisted(call.stored'))]_vars

\* C19: the performance file holds a complete aggregate or does not exist:
\* the one before the write or the one written, never a file cut short.
C19_NoHalfWrittenFile ==
    call.stored.status \in {"absent", "complete"}

(***************************************************************************)
(* Properties of parsing within the workflow (Spec)                        *)
(***************************************************************************)
\* the last response was a JSON object with a required key absent or empty
LastLacksRequiredKey ==
    /\ gen.last.kind = "text"
    /\ gen.last.payload.form = "json"
    /\ ~HasRequiredKeys(gen.last.payload)

\* C26: a response with a required key absent or empty gives no record, and
\* the attempt is retried while attempts remain; and the record of a cycle
\* that has come to the Validator has ingredients and steps.
C26_RequiredKeysOrNoRecord ==
    /\ (gen.pc \in {"loop", "returned"} /\ LastLacksRequiredKey) =>
          /\ gen.result = NoRecipe
          /\ gen.pc = "returned" => gen.attempt = GEMINI_MAX_RETRIES
    /\ (Len(cycle.stages) >= 2 /\ cycle.stages[2] = "Validate") =>
          /\ Len(cycle.recipe.ingredients) > 0
          /\ Len(cycle.recipe.steps) > 0

\* a cycle whose second attempt is due after a response with an empty
\* ingredients list
C26_Witness ==
    /\ cycle.pc = "generate"
    /\ gen.pc = "loop"
    /\ gen.attempt = 2
    /\ LastLacksRequiredKey
    /\ Len(DataObjects[gen.last.payload.object].ingredients) = 0

(***************************************************************************)
(* Properties of publishing in continuous mode (SpecContinuous)            *)
(***************************************************************************)
\* how often the running cycle has called publish_recipe
PublishCalls == Cardinality({ i \in 1..Len(cycle.stages) : cycle.stages[i] = "Publish" })

\* the step calls publish_recipe
PublishStep == PublishCalls' = PublishCalls + 1

\* C27: a cycle calls the Publishing Service at most once; a publish that
\* fails ends the cycle with the result False; and the record a cycle
\* submits is the one it has generated itself: a cycle starts without a
\* record and submits after its own Generate, Validate and Optimize stages.
C27_PublishOncePerCycle ==
    /\ [](PublishCalls <= 1)
    /\ [][(PublishStep /\ cycle'.recipe.post_id = "None")
             => (cycle'.pc = "done" /\ ~cycle'.result)]_vars
    /\ [](cycle.pc = "generate" => cycle.recipe = NoRecipe)
    /\ [][PublishStep => cycle.stages = <<"Generate", "Validate", "Optimize">>]_vars

\* after a cycle that published, a later cycle has ended on a failed publish
C27_Witness ==
    /\ cycle.pc = "done"
    /\ ~cycle.result
    /\ cycle.stages = <<"Generate", "Validate", "Optimize", "Publish">>
    /\ Len(inserted) = 1
    /\ published_count = 1

====
